---- MODULE Spec2Model ----
(***************************************************************************)
(* Model of VCF_functions.py: the header scanner (rows2skip, case_id,      *)
(* csqkeys), the embedded-field decoders (the INFO decoding of             *)
(* read_process_vcf, update_value, the all_effects decoding of             *)
(* read_process_maf), the variant filters, the transcript resolvers and    *)
(* the two pipelines read_process_vcf and read_process_maf.                *)
(*                                                                         *)
(* Text is modelled at the character level: a Python str is a sequence of  *)
(* one-character strings, so that startswith, split, replace and `in` are  *)
(* computed the way the code computes them.  A Python dict is a sequence   *)
(* of <<key, value>> pairs with distinct keys, in insertion order.         *)
(* np.nan is the record NaN; a raised exception is a control position.     *)
(***************************************************************************)
EXTENDS Integers, Sequences, FiniteSets, TLC

VARIABLES
    call,     \* the function being executed ("none" before the call)
    pc,       \* control position inside the call
    file,     \* the text lines of the file, header first
    arg,      \* the arguments of the call (other than the file)
    scan,     \* locals of the line loop of case_id
    loc,      \* locals of a pipeline: skip_rows and csq_keys
    df,       \* the data frame of a pipeline: a sequence of rows
    ret       \* the returned value once pc = "returned"

vars == <<call, pc, file, arg, scan, loc, df, ret>>

(***************************************************************************)
(* Bounds of the model.                                                    *)
(***************************************************************************)
MaxLines == 3      \* lines of a file given to the header scanner
MaxSub == 3        \* sub-records given to a filter or a resolver
MaxTokens == 3     \* ';'-separated tokens of an INFO string
MaxValues == 3     \* '|'-separated values of a CSQ sub-entry
MaxEntries == 2    \* ','-separated sub-entries of a CSQ value
MaxRows == 2       \* rows of the table of a pipeline

(***************************************************************************)
(* Literal texts of the source.                                            *)
(***************************************************************************)
HashHash == <<"#", "#">>
IndividualPrefix == <<"#", "#", "I", "N", "D", "I", "V", "I", "D", "U", "A", "L">>
IndividualNameMarker == <<"#", "#", "I", "N", "D", "I", "V", "I", "D", "U", "A", "L", "=", "<", "N", "A", "M", "E", "=">>
SampleTumorPrefix == <<"#", "#", "S", "A", "M", "P", "L", "E", "=", "<", "I", "D", "=", "T", "U", "M", "O", "R">>
NameMarker == <<"N", "A", "M", "E", "=">>
CsqInfoPrefix == <<"#", "#", "I", "N", "F", "O", "=", "<", "I", "D", "=", "C", "S", "Q">>
FormatMarker == <<"F", "o", "r", "m", "a", "t", ":", " ">>
TrailingLiteral == <<"\"", ">", "\n">>
EqNan == <<"=", "n", "a", "n">>
CSQ == <<"C", "S", "Q">>
Consequence == <<"C", "o", "n", "s", "e", "q", "u", "e", "n", "c", "e">>
VARIANT_CLASS == <<"V", "A", "R", "I", "A", "N", "T", "_", "C", "L", "A", "S", "S">>
Feature == <<"F", "e", "a", "t", "u", "r", "e">>
PASS == <<"P", "A", "S", "S">>
ColPOS == <<"P", "O", "S">>
ColFILTER == <<"F", "I", "L", "T", "E", "R">>
ColINFO == <<"I", "N", "F", "O">>
ColVariantINFO == <<"V", "a", "r", "i", "a", "n", "t", "_", "I", "N", "F", "O">>
ColStart == <<"S", "t", "a", "r", "t", "_", "P", "o", "s", "i", "t", "i", "o", "n">>
ColAllEffects == <<"a", "l", "l", "_", "e", "f", "f", "e", "c", "t", "s">>
Symbol_all_effects == <<"S", "y", "m", "b", "o", "l", "_", "a", "l", "l", "_", "e", "f", "f", "e", "c", "t", "s">>
Consequence_all_effects == <<"C", "o", "n", "s", "e", "q", "u", "e", "n", "c", "e", "_", "a", "l", "l", "_", "e", "f", "f", "e", "c", "t", "s">>
HGVSp_Short_all_effects == <<"H", "G", "V", "S", "p", "_", "S", "h", "o", "r", "t", "_", "a", "l", "l", "_", "e", "f", "f", "e", "c", "t", "s">>
Transcript_ID_all_effects == <<"T", "r", "a", "n", "s", "c", "r", "i", "p", "t", "_", "I", "D", "_", "a", "l", "l", "_", "e", "f", "f", "e", "c", "t", "s">>
RefSeq_all_effects == <<"R", "e", "f", "S", "e", "q", "_", "a", "l", "l", "_", "e", "f", "f", "e", "c", "t", "s">>
HGVSc_all_effects == <<"H", "G", "V", "S", "c", "_", "a", "l", "l", "_", "e", "f", "f", "e", "c", "t", "s">>
Impact_all_effects == <<"I", "m", "p", "a", "c", "t", "_", "a", "l", "l", "_", "e", "f", "f", "e", "c", "t", "s">>
Canonical_all_effects == <<"C", "a", "n", "o", "n", "i", "c", "a", "l", "_", "a", "l", "l", "_", "e", "f", "f", "e", "c", "t", "s">>
Sift_all_effects == <<"S", "i", "f", "t", "_", "a", "l", "l", "_", "e", "f", "f", "e", "c", "t", "s">>
PolyPhen_all_effects == <<"P", "o", "l", "y", "P", "h", "e", "n", "_", "a", "l", "l", "_", "e", "f", "f", "e", "c", "t", "s">>
Strand_all_effects == <<"S", "t", "r", "a", "n", "d", "_", "a", "l", "l", "_", "e", "f", "f", "e", "c", "t", "s">>

\* np.nan, and the test the code applies to it (dropna)
NaN == [nan |-> TRUE, val |-> <<>>]
\* a value that is not np.nan, held where np.nan may be held too
Some(v) == [nan |-> FALSE, val |-> v]
IsNaN(x) == x.nan

(***************************************************************************)
(* Python str operations on character sequences.                           *)
(***************************************************************************)
\* s[i-1:].startswith(p), i counted from 1
IsPrefixAt(s, p, i) ==
    /\ i + Len(p) - 1 <= Len(s)
    /\ \A k \in 1..Len(p) : s[i + k - 1] = p[k]

\* s.startswith(p)
StartsWith(s, p) == IsPrefixAt(s, p, 1)

\* p in s
Contains(s, p) == \E i \in 1..(Len(s) - Len(p) + 1) : IsPrefixAt(s, p, i)

\* s.find(p) + 1 for a non-empty p: the first position of p in s, 0 if none
Find(s, p) ==
    LET hits == {i \in 1..(Len(s) - Len(p) + 1) : IsPrefixAt(s, p, i)}
    IN  IF hits = {} THEN 0 ELSE CHOOSE i \in hits : \A j \in hits : i <= j

\* s.split(sep)
RECURSIVE Split(_, _)
Split(s, sep) ==
    LET i == Find(s, sep)
    IN  IF i = 0 THEN <<s>>
        ELSE <<SubSeq(s, 1, i - 1)>> \o Split(SubSeq(s, i + Len(sep), Len(s)), sep)

\* s.split(sep, 1)
SplitOnce(s, sep) ==
    LET i == Find(s, sep)
    IN  IF i = 0 THEN <<s>>
        ELSE <<SubSeq(s, 1, i - 1), SubSeq(s, i + Len(sep), Len(s))>>

\* s.replace(old, '')
RECURSIVE Remove(_, _)
Remove(s, old) ==
    LET i == Find(s, old)
    IN  IF i = 0 THEN s
        ELSE SubSeq(s, 1, i - 1) \o Remove(SubSeq(s, i + Len(old), Len(s)), old)

\* sep.join(parts)
RECURSIVE Join(_, _)
Join(parts, sep) ==
    IF parts = <<>> THEN <<>>
    ELSE IF Len(parts) = 1 THEN parts[1]
    ELSE parts[1] \o sep \o Join(Tail(parts), sep)

\* c.lower() for the letters of the model's alphabet
UpperCase == <<"A", "B", "C", "D", "E", "F", "G", "H", "I", "J", "K", "L", "M",
               "N", "O", "P", "Q", "R", "S", "T", "U", "V", "W", "X", "Y", "Z">>
LowerCase == <<"a", "b", "c", "d", "e", "f", "g", "h", "i", "j", "k", "l", "m",
               "n", "o", "p", "q", "r", "s", "t", "u", "v", "w", "x", "y", "z">>
LowerChar(c) ==
    IF \E k \in 1..Len(UpperCase) : UpperCase[k] = c
    THEN LowerCase[CHOOSE k \in 1..Len(UpperCase) : UpperCase[k] = c]
    ELSE c

\* s.lower()
Lower(s) == [k \in 1..Len(s) |-> LowerChar(s[k])]

(***************************************************************************)
(* Python dict operations on sequences of <<key, value>> pairs.            *)
(***************************************************************************)
Keys(d) == {d[k][1] : k \in 1..Len(d)}
HasKey(d, key) == \E k \in 1..Len(d) : d[k][1] = key
\* d[key], for a key the dict holds
Get(d, key) == d[CHOOSE k \in 1..Len(d) : d[k][1] = key][2]
\* d.update({key: value})
Put(d, key, value) ==
    IF HasKey(d, key)
    THEN [k \in 1..Len(d) |-> IF d[k][1] = key THEN <<key, value>> ELSE d[k]]
    ELSE Append(d, <<key, value>>)

\* dict(pairs): later pairs overwrite earlier ones of the same key
RECURSIVE DictOf(_)
DictOf(pairs) ==
    IF pairs = <<>> THEN <<>>
    ELSE LET n == Len(pairs)
         IN  Put(DictOf(SubSeq(pairs, 1, n - 1)), pairs[n][1], pairs[n][2])

\* zip that pads the shorter values with the sentinel 'nan'
ZipPadded(a, b) ==
    [k \in 1..Len(a) |-> <<a[k], IF k <= Len(b) THEN b[k] ELSE <<"n", "a", "n">> >>]

\* zip(a, b): stops at the shorter of the two
Zip(a, b) ==
    LET n == IF Len(a) <= Len(b) THEN Len(a) ELSE Len(b)
    IN  [k \in 1..n |-> <<a[k], b[k]>>]

\* [x for x in s if Keep(x)]
RECURSIVE SelectIdx(_, _, _)
SelectIdx(s, keep, k) ==
    IF k > Len(s) THEN <<>>
    ELSE (IF k \in keep THEN <<s[k]>> ELSE <<>>) \o SelectIdx(s, keep, k + 1)

\* all sequences over S of length lo..hi
SeqsOf(S, lo, hi) == UNION {[1..n -> S] : n \in lo..hi}

(***************************************************************************)
(* HeaderScanner                                                           *)
(***************************************************************************)
\* rows2skip: the number of leading lines that start with '##'
RECURSIVE Rows2Skip(_)
Rows2Skip(f) ==
    IF f = <<>> THEN 0
    ELSE IF StartsWith(f[1], HashHash) THEN 1 + Rows2Skip(Tail(f))
    ELSE 0

\* csqkeys: the first line that starts with '##INFO=<ID=CSQ' decides;
\* line.split('Format: ', 1)[1] raises IndexError when the marker is absent
CsqKeysNoStrip(f) ==
    LET hits == {k \in 1..Len(f) : StartsWith(f[k], CsqInfoPrefix)}
    IN  IF hits = {} THEN [raised |-> FALSE, value |-> <<>>]
        ELSE LET line == f[CHOOSE k \in hits : \A j \in hits : k <= j]
                 parts == SplitOnce(line, FormatMarker)
             IN  IF Len(parts) < 2 THEN [raised |-> TRUE, value |-> <<>>]
                 ELSE [raised |-> FALSE, value |-> Split(parts[2], <<"|">>)]

CsqKeys(f) ==
    LET hits == {k \in 1..Len(f) : StartsWith(f[k], CsqInfoPrefix)}
    IN  IF hits = {} THEN [raised |-> FALSE, value |-> <<>>]
        ELSE LET line == f[CHOOSE k \in hits : \A j \in hits : k <= j]
                 parts == SplitOnce(line, FormatMarker)
             IN  IF Len(parts) < 2 THEN [raised |-> TRUE, value |-> <<>>]
                 ELSE [raised |-> FALSE,
                       value |-> Split(Remove(parts[2], TrailingLiteral), <<"|">>)]

\* one iteration of the line loop of case_id on `line`; st.at is "loop"
\* (next line), "break" or "raise" (IndexError of line.split(',')[1])
CaseIdLine(st, line) ==
    IF StartsWith(line, HashHash)
    THEN IF StartsWith(line, IndividualPrefix)
         THEN LET id == Remove(Split(line, <<",">>)[1], IndividualNameMarker)
              IN  [st EXCEPT !.identifier = id, !.i = @ + 1,
                             !.at = IF Len(id) > 0 /\ Len(st.sample_id) > 0
                                    THEN "break" ELSE "loop"]
         ELSE IF StartsWith(line, SampleTumorPrefix)
         THEN LET parts == Split(line, <<",">>)
              IN  IF Len(parts) < 2 THEN [st EXCEPT !.at = "raise"]
                  ELSE LET sid == Remove(parts[2], NameMarker)
                       IN  [st EXCEPT !.sample_id = sid, !.i = @ + 1,
                                      !.at = IF Len(st.identifier) > 0 /\ Len(sid) > 0
                                             THEN "break" ELSE "loop"]
         ELSE [st EXCEPT !.i = @ + 1]
    ELSE [st EXCEPT !.at = "break"]

CaseIdStart == [i |-> 1, identifier |-> <<>>, sample_id |-> <<>>, at |-> "loop"]

\* case_id run to its end: the locals when the loop is left
RECURSIVE CaseIdRun(_, _)
CaseIdRun(st, f) ==
    IF st.at # "loop" \/ st.i > Len(f) THEN st
    ELSE CaseIdRun(CaseIdLine(st, f[st.i]), f)

(***************************************************************************)
(* The files given to the header scanner.                                  *)
(***************************************************************************)
NL == <<"\n">>
OtherMetaLine == <<"#", "#", "f">> \o NL
ColumnLine == <<"#", "C">> \o NL
DataLine == <<"1">> \o NL
IndividualLine == IndividualNameMarker \o <<"c", ",", "I", ">">> \o NL
IndividualBareLine == IndividualNameMarker \o <<",", "I", ">">> \o NL
SampleLine == SampleTumorPrefix \o <<",">> \o NameMarker \o <<"s", ",", "X", ">">> \o NL
SampleNoCommaLine == SampleTumorPrefix \o <<">">> \o NL

\* a CSQ-declaring metadata line with 'Format: ' followed by the fields
CsqLine(fields) ==
    CsqInfoPrefix \o <<",", "D", "=", "\"", "x", " ">> \o FormatMarker
        \o Join(fields, <<"|">>) \o TrailingLiteral
CsqLineNoFormat == CsqInfoPrefix \o <<",", "D", "=", "\"", "x">> \o TrailingLiteral

SchemaChoices ==
    { << <<"A">> >>, << <<"A">>, <<"B", "c">> >>, << <<"B", "c">>, <<"A">> >>,
      << <<"A">>, <<"B", "c">>, <<"C">> >> }

HeaderLines ==
    {OtherMetaLine, ColumnLine, DataLine, IndividualLine, IndividualBareLine,
     SampleLine, SampleNoCommaLine, CsqLineNoFormat}
        \cup {CsqLine(s) : s \in SchemaChoices}

Files == SeqsOf(HeaderLines, 0, MaxLines)

NoArg == <<>>
NoScan == [i |-> 0, identifier |-> <<>>, sample_id |-> <<>>, at |-> "none"]
NoDf == <<>>
NoLoc == [skip_rows |-> 0, csq_keys |-> <<>>]
NoRet == <<>>

(***************************************************************************)
(* Specification of the header scanner: one of rows2skip, csqkeys and      *)
(* case_id is called on a file.                                            *)
(***************************************************************************)
InitHeader ==
    /\ call = "none"
    /\ pc = "start"
    /\ file \in Files
    /\ arg = NoArg
    /\ scan = NoScan
    /\ loc = NoLoc
    /\ df = NoDf
    /\ ret = NoRet

Rows2SkipCall ==
    /\ pc = "start"
    /\ call' = "rows2skip"
    /\ pc' = "returned"
    /\ ret' = Rows2Skip(file)
    /\ UNCHANGED <<file, arg, scan, loc, df>>

CsqKeysCall ==
    /\ pc = "start"
    /\ call' = "csqkeys"
    /\ LET r == CsqKeys(file)
       IN  /\ pc' = IF r.raised THEN "raised" ELSE "returned"
           /\ ret' = r.value
    /\ UNCHANGED <<file, arg, scan, loc, df>>

CaseIdCall ==
    /\ pc = "start"
    /\ call' = "case_id"
    /\ pc' = "loop"
    /\ scan' = CaseIdStart
    /\ UNCHANGED <<file, arg, loc, df, ret>>

CaseIdNextLine ==
    /\ call = "case_id"
    /\ pc = "loop"
    /\ scan.at = "loop"
    /\ scan.i <= Len(file)
    /\ scan' = CaseIdLine(scan, file[scan.i])
    /\ pc' = IF scan'.at = "raise" THEN "raised" ELSE "loop"
    /\ UNCHANGED <<call, file, arg, loc, df, ret>>

CaseIdReturn ==
    /\ call = "case_id"
    /\ pc = "loop"
    /\ scan.at = "break" \/ (scan.at = "loop" /\ scan.i > Len(file))
    /\ pc' = "returned"
    /\ ret' = <<scan.identifier, scan.sample_id>>
    /\ UNCHANGED <<call, file, arg, scan, loc, df>>

\* C9: csqkeys returns exactly the declared field names, in order, of the
\* first line that starts with '##INFO=<ID=CSQ' (no residue of '">' or of the
\* line end in the last name), and the empty sequence when no line declares
\* the format; a declaring line with 'Format: ' never makes it raise.
FirstDeclaring(k) ==
    /\ StartsWith(file[k], CsqInfoPrefix)
    /\ \A j \in 1..(k - 1) : ~StartsWith(file[j], CsqInfoPrefix)

C9_SchemaExact ==
    call = "csqkeys" =>
        /\ \A k \in 1..Len(file) : \A s \in SchemaChoices :
              (FirstDeclaring(k) /\ file[k] = CsqLine(s)) =>
                  (pc = "returned" /\ ret = s)
        /\ (\A k \in 1..Len(file) : ~StartsWith(file[k], CsqInfoPrefix)) =>
              (pc = "returned" /\ ret = <<>>)

\* two declaring lines, the first of three fields: the first one is used
C9_Witness ==
    /\ call = "csqkeys"
    /\ pc = "returned"
    /\ Len(file) = 3
    /\ file[2] = CsqLine(<< <<"A">>, <<"B", "c">>, <<"C">> >>)
    /\ file[3] = CsqLine(<< <<"B", "c">>, <<"A">> >>)
    /\ ret = << <<"A">>, <<"B", "c">>, <<"C">> >>

\* C10 (as claimed): case_id never fails, whatever the shape of the
\* '##INDIVIDUAL' and '##SAMPLE=<ID=TUMOR' lines.
C10_NeverFails == ~(call = "case_id" /\ pc = "raised")

NextHeader ==
    \/ Rows2SkipCall
    \/ CsqKeysCall
    \/ CaseIdCall
    \/ CaseIdNextLine
    \/ CaseIdReturn

SpecHeader == InitHeader /\ [][NextHeader]_vars

(***************************************************************************)
(* EmbeddedFieldDecoder                                                    *)
(***************************************************************************)
\* read_process_vcf, line 286: split INFO on ';' and append '=nan' to every
\* token that holds no '='
AddNan(x) ==
    LET toks == Split(x, <<";">>)
    IN  [k \in 1..Len(toks) |->
            IF Contains(toks[k], <<"=">>) THEN toks[k] ELSE toks[k] \o EqNan]

\* read_process_vcf, line 289: dict(item.split("=") for item in x); dict()
\* raises ValueError for an item that does not split into exactly two parts
ToDictFirstWins(items) ==
    LET parts == [k \in 1..Len(items) |-> Split(items[k], <<"=">>)]
        rev == [k \in 1..Len(parts) |-> parts[Len(parts) + 1 - k]]
    IN  IF \E k \in 1..Len(parts) : Len(parts[k]) # 2
        THEN [raised |-> TRUE, value |-> <<>>]
        ELSE [raised |-> FALSE, value |-> DictOf(rev)]

ToDict(items) ==
    LET parts == [k \in 1..Len(items) |-> Split(items[k], <<"=">>)]
    IN  IF \E k \in 1..Len(parts) : Len(parts[k]) # 2
        THEN [raised |-> TRUE, value |-> <<>>]
        ELSE [raised |-> FALSE, value |-> DictOf(parts)]

\* update_value: dict_a[key] raises KeyError when the key is absent
UpdateValue(dict_a, key, csq_keys) ==
    IF ~HasKey(dict_a, key) THEN [raised |-> TRUE, value |-> dict_a]
    ELSE LET entries == Split(Get(dict_a, key), <<",">>)
             decoded == [k \in 1..Len(entries) |->
                            DictOf(Zip(csq_keys, Split(entries[k], <<"|">>)))]
         IN  [raised |-> FALSE, value |-> Put(dict_a, key, decoded)]

\* read_process_maf, lines 365-367: the fixed schema of all_effects
MafKeys ==
    <<Symbol_all_effects, Consequence_all_effects, HGVSp_Short_all_effects,
      Transcript_ID_all_effects, RefSeq_all_effects, HGVSc_all_effects,
      Impact_all_effects, Canonical_all_effects, Sift_all_effects,
      PolyPhen_all_effects, Strand_all_effects>>

\* read_process_maf, line 370
DecodeAllEffects(x) ==
    LET entries == Split(x, <<";">>)
    IN  [k \in 1..Len(entries) |-> DictOf(Zip(MafKeys, Split(entries[k], <<",">>)))]

(***************************************************************************)
(* VariantFilter                                                           *)
(***************************************************************************)
\* the condition of filter_variants on one sub-record: "keep", "drop", or
\* "raise" (KeyError); `and` does not read VARIANT_CLASS when the first
\* test fails
KeepVcfEither(i, variant, variant_class) ==
    IF ~HasKey(i, Consequence) THEN "raise"
    ELSE IF Contains(Get(i, Consequence), variant) THEN "keep"
    ELSE IF ~HasKey(i, VARIANT_CLASS) THEN "raise"
    ELSE IF Contains(Get(i, VARIANT_CLASS), variant_class) THEN "keep"
    ELSE "drop"

KeepVcf(i, variant, variant_class) ==
    IF ~HasKey(i, Consequence) THEN "raise"
    ELSE IF ~Contains(Get(i, Consequence), variant) THEN "drop"
    ELSE IF ~HasKey(i, VARIANT_CLASS) THEN "raise"
    ELSE IF Contains(Get(i, VARIANT_CLASS), variant_class) THEN "keep"
    ELSE "drop"

\* filter_variants
FilterVariants(dict_a, variant, variant_class) ==
    IF ~HasKey(dict_a, CSQ) THEN [raised |-> TRUE, value |-> dict_a]
    ELSE LET csq == Get(dict_a, CSQ)
             verdict == [k \in 1..Len(csq) |-> KeepVcf(csq[k], variant, variant_class)]
         IN  IF \E k \in 1..Len(csq) : verdict[k] = "raise"
             THEN [raised |-> TRUE, value |-> dict_a]
             ELSE [raised |-> FALSE,
                   value |-> Put(dict_a, CSQ,
                       SelectIdx(csq, {k \in 1..Len(csq) : verdict[k] = "keep"}, 1))]

\* the condition of filter_variants_maf on one sub-record
KeepMaf(dic, variant) ==
    IF ~HasKey(dic, Consequence_all_effects) THEN "raise"
    ELSE IF Contains(Get(dic, Consequence_all_effects), variant) THEN "keep"
    ELSE "drop"

\* filter_variants_maf: np.nan when nothing is kept
FilterVariantsMaf(list_of_dicts, variant) ==
    LET verdict == [k \in 1..Len(list_of_dicts) |-> KeepMaf(list_of_dicts[k], variant)]
        updated == SelectIdx(list_of_dicts,
                             {k \in 1..Len(list_of_dicts) : verdict[k] = "keep"}, 1)
    IN  IF \E k \in 1..Len(list_of_dicts) : verdict[k] = "raise"
        THEN [raised |-> TRUE, value |-> NaN]
        ELSE [raised |-> FALSE,
              value |-> IF Len(updated) > 0 THEN Some(updated) ELSE NaN]

(***************************************************************************)
(* TranscriptResolver                                                      *)
(***************************************************************************)
\* x in id_list, id_list a list of strings
InList(x, id_list) == \E k \in 1..Len(id_list) : id_list[k] = x

\* a resolver that stops at the first match
ResolveFirst(subs, key, id_list) ==
    LET hits == {k \in 1..Len(subs) : InList(Get(subs[k], key), id_list)}
    IN  IF \E k \in 1..Len(subs) : ~HasKey(subs[k], key)
        THEN [raised |-> TRUE, value |-> NaN]
        ELSE IF hits = {} THEN [raised |-> FALSE, value |-> NaN]
        ELSE [raised |-> FALSE,
              value |-> Some(subs[CHOOSE k \in hits : \A j \in hits : k <= j])]

\* the loop shared by find_variants and find_variants_maf: every sub-record
\* is visited, i[key] raises KeyError when the key is absent, a later match
\* overwrites an earlier one; `variants` starts as '' and np.nan is returned
\* when len(variants) is 0
RECURSIVE ResolveLoop(_, _, _, _, _)
ResolveLoop(subs, key, id_list, k, variants) ==
    IF k > Len(subs)
    THEN [raised |-> FALSE,
          value |-> IF Len(variants) > 0 THEN Some(variants) ELSE NaN]
    ELSE IF ~HasKey(subs[k], key) THEN [raised |-> TRUE, value |-> NaN]
    ELSE ResolveLoop(subs, key, id_list, k + 1,
                     IF InList(Get(subs[k], key), id_list) THEN subs[k] ELSE variants)

Resolve(subs, key, id_list) == ResolveLoop(subs, key, id_list, 1, <<>>)

\* find_variants: dict_a['CSQ'] raises KeyError when the key is absent
FindVariants(dict_a, id_list) ==
    IF ~HasKey(dict_a, CSQ) THEN [raised |-> TRUE, value |-> NaN]
    ELSE Resolve(Get(dict_a, CSQ), Feature, id_list)

\* find_variants_maf
FindVariantsMaf(list_of_dicts, id_list) ==
    Resolve(list_of_dicts, Transcript_ID_all_effects, id_list)

(***************************************************************************)
(* The arguments given to the decoders, the filters and the resolvers.     *)
(***************************************************************************)
\* tokens of an INFO string: key, key=value, the empty token, and a token
\* whose value holds a second '='
TokenChoices ==
    { [key |-> <<"k">>, has |-> TRUE, value |-> <<"v">>],
      [key |-> <<"k">>, has |-> TRUE, value |-> <<"w">>],
      [key |-> <<"k">>, has |-> FALSE, value |-> <<>>],
      [key |-> <<"j">>, has |-> TRUE, value |-> <<"v">>],
      [key |-> <<"j">>, has |-> FALSE, value |-> <<>>],
      [key |-> <<>>, has |-> FALSE, value |-> <<>>],
      [key |-> <<"j">>, has |-> TRUE, value |-> <<"v", "=", "w">>] }

TokenText(t) == IF t.has THEN t.key \o <<"=">> \o t.value ELSE t.key
InfoText(tokens) == Join([k \in 1..Len(tokens) |-> TokenText(tokens[k])], <<";">>)

DecodeInfoArgs ==
    { [fn |-> "decode_info", tokens |-> ts, x |-> InfoText(ts)] :
        ts \in SeqsOf(TokenChoices, 1, MaxTokens) }

\* CSQ values: sub-entries of '|'-joined values
ValueChoices == {<<"a">>, <<>>}
EntryChoices == SeqsOf(ValueChoices, 1, MaxValues)
CsqText(entries) ==
    Join([k \in 1..Len(entries) |-> Join(entries[k], <<"|">>)], <<",">>)

UpdateValueArgs ==
    { [fn |-> "update_value", entries |-> es, key |-> CSQ, csq_keys |-> keys,
       dict_a |-> << << <<"D">>, <<"1">> >>, <<CSQ, CsqText(es)>> >>] :
        es \in SeqsOf(EntryChoices, 1, MaxEntries),
        keys \in SchemaChoices \cup {<<>>} }

T1 == <<"T", "1">>
T2 == <<"T", "2">>
T3 == <<"T", "3">>
ConsChoices == {<<"m">>, <<"M">>, <<"s">>, <<"s", "m">>}
ClassChoices == {<<"S">>, <<"D">>}
VariantChoices == {<<"m">>, <<"s", "m">>}
IdListChoices == {<<>>, <<T1>>, <<T1, T2>>, <<T3>>}

\* a decoded CSQ sub-record, and two that a short sub-entry decodes to
VcfSub(c, v, f) == <<<<Consequence, c>>, <<VARIANT_CLASS, v>>, <<Feature, f>>>>
VcfSubNoClass == <<<<Consequence, <<"m">>>>>>
VcfSubNoFeature == <<<<Consequence, <<"m">>>>, <<VARIANT_CLASS, <<"S">>>>>>
EmptySub == <<>>

\* a decoded all_effects sub-record, and one that a short sub-entry decodes to
MafSub(c, t) ==
    <<<<Symbol_all_effects, <<"G">>>>, <<Consequence_all_effects, c>>,
      <<HGVSp_Short_all_effects, <<"p">>>>, <<Transcript_ID_all_effects, t>>,
      <<RefSeq_all_effects, <<>>>>, <<HGVSc_all_effects, <<"c">>>>,
      <<Impact_all_effects, <<"H">>>>, <<Canonical_all_effects, <<"Y">>>>,
      <<Sift_all_effects, <<>>>>, <<PolyPhen_all_effects, <<>>>>,
      <<Strand_all_effects, <<"1">>>>>>
MafSubNoTranscript ==
    <<<<Symbol_all_effects, <<"G">>>>, <<Consequence_all_effects, <<"m">>>>>>
MafSubNoConsequence == <<<<Symbol_all_effects, <<"G">>>>>>

FilterVariantsArgs ==
    { [fn |-> "filter_variants", dict_a |-> <<<<CSQ, subs>>>>,
       variant |-> v, variant_class |-> <<"S">>] :
        subs \in SeqsOf({VcfSub(c, cl, T1) : c \in ConsChoices, cl \in ClassChoices}
                            \cup {VcfSubNoClass, EmptySub}, 1, MaxSub),
        v \in VariantChoices }

FilterVariantsMafArgs ==
    { [fn |-> "filter_variants_maf", list_of_dicts |-> subs, variant |-> v] :
        subs \in SeqsOf({MafSub(c, t) : c \in ConsChoices, t \in {T1, T2}}
                            \cup {MafSubNoConsequence}, 1, MaxSub),
        v \in VariantChoices }

FindVariantsArgs ==
    { [fn |-> "find_variants", dict_a |-> <<<<CSQ, subs>>>>, id_list |-> ids] :
        subs \in SeqsOf({VcfSub(c, <<"S">>, f) : c \in {<<"m">>, <<"s">>}, f \in {T1, T2, T3}}
                            \cup {VcfSubNoFeature}, 0, MaxSub),
        ids \in IdListChoices }

FindVariantsMafArgs ==
    { [fn |-> "find_variants_maf", list_of_dicts |-> subs, id_list |-> ids] :
        subs \in SeqsOf({MafSub(c, t) : c \in {<<"m">>, <<"s">>}, t \in {T1, T2, T3}}
                            \cup {MafSubNoTranscript}, 1, MaxSub),
        ids \in IdListChoices }

(***************************************************************************)
(* Specification of the decoders, filters and resolvers: one of them is    *)
(* called on its arguments.                                                *)
(***************************************************************************)
InitFn ==
    /\ call = "none"
    /\ pc = "start"
    /\ file = <<>>
    /\ \/ arg \in DecodeInfoArgs
       \/ arg \in UpdateValueArgs
       \/ arg \in FilterVariantsArgs
       \/ arg \in FilterVariantsMafArgs
       \/ arg \in FindVariantsArgs
       \/ arg \in FindVariantsMafArgs
    /\ scan = NoScan
    /\ loc = NoLoc
    /\ df = NoDf
    /\ ret = NoRet

\* the call returns r.value or raises
Finish(fn, r) ==
    /\ pc = "start"
    /\ arg.fn = fn
    /\ call' = fn
    /\ pc' = IF r.raised THEN "raised" ELSE "returned"
    /\ ret' = r.value
    /\ UNCHANGED <<file, arg, scan, loc, df>>

DecodeInfoCall ==
    /\ arg.fn = "decode_info"
    /\ Finish("decode_info", ToDict(AddNan(arg.x)))

UpdateValueCall ==
    /\ arg.fn = "update_value"
    /\ Finish("update_value", UpdateValue(arg.dict_a, arg.key, arg.csq_keys))

FilterVariantsCall ==
    /\ arg.fn = "filter_variants"
    /\ Finish("filter_variants", FilterVariants(arg.dict_a, arg.variant, arg.variant_class))

FilterVariantsMafCall ==
    /\ arg.fn = "filter_variants_maf"
    /\ Finish("filter_variants_maf", FilterVariantsMaf(arg.list_of_dicts, arg.variant))

FindVariantsCall ==
    /\ arg.fn = "find_variants"
    /\ Finish("find_variants", FindVariants(arg.dict_a, arg.id_list))

FindVariantsMafCall ==
    /\ arg.fn = "find_variants_maf"
    /\ Finish("find_variants_maf", FindVariantsMaf(arg.list_of_dicts, arg.id_list))

NextFn ==
    \/ DecodeInfoCall
    \/ UpdateValueCall
    \/ FilterVariantsCall
    \/ FilterVariantsMafCall
    \/ FindVariantsCall
    \/ FindVariantsMafCall

SpecFn == InitFn /\ [][NextFn]_vars

(***************************************************************************)
(* Properties of the decoders, filters and resolvers (SpecFn).             *)
(***************************************************************************)
SentinelText == <<"n", "a", "n">>
Min(a, b) == IF a <= b THEN a ELSE b
Max(S) == CHOOSE k \in S : \A j \in S : j <= k
\* t occurs in s as a contiguous, case-sensitive run of characters
Occurs(t, s) == \E i \in 1..(Len(s) + 1) : \E j \in 0..Len(s) : SubSeq(s, i, j) = t
\* the order-preserving subsequence of subs at the positions Q
NthOf(Q, j) == CHOOSE k \in Q : Cardinality({q \in Q : q <= k}) = j
SubsequenceAt(subs, Q) == [j \in 1..Cardinality(Q) |-> subs[NthOf(Q, j)]]

ResolverSubs ==
    IF arg.fn = "find_variants" THEN Get(arg.dict_a, CSQ) ELSE arg.list_of_dicts
ResolverKey ==
    IF arg.fn = "find_variants" THEN Feature ELSE Transcript_ID_all_effects

\* C1: find_variants and find_variants_maf are last-wins: on sub-records that
\* all carry the transcript key, when some sub-record's identifier is a member
\* of the identifier set the result is the sub-record at the greatest such
\* index; when none is, the result is absent (np.nan).
C1_LastWins ==
    call \in {"find_variants", "find_variants_maf"} =>
        LET subs == ResolverSubs
            ids == {arg.id_list[j] : j \in 1..Len(arg.id_list)}
            M == {k \in 1..Len(subs) : HasKey(subs[k], ResolverKey)
                                          /\ Get(subs[k], ResolverKey) \in ids}
        IN  (\A k \in 1..Len(subs) : HasKey(subs[k], ResolverKey)) =>
                /\ pc = "returned"
                /\ M # {} => ret = Some(subs[Max(M)])
                /\ M = {} => ret = NaN

\* [{id:T1},{id:T2},{id:T1}] with {T1}: the third sub-record is returned
C1_Witness ==
    /\ call = "find_variants"
    /\ pc = "returned"
    /\ arg.id_list = <<T1>>
    /\ Len(ResolverSubs) = 3
    /\ Get(ResolverSubs[1], Feature) = T1
    /\ Get(ResolverSubs[2], Feature) = T2
    /\ Get(ResolverSubs[3], Feature) = T1
    /\ ResolverSubs[1] # ResolverSubs[3]
    /\ ret = Some(ResolverSubs[3])

VcfQualifying(subs) ==
    {k \in 1..Len(subs) : /\ Occurs(arg.variant, Get(subs[k], Consequence))
                          /\ Occurs(arg.variant_class, Get(subs[k], VARIANT_CLASS))}
MafQualifying(subs) ==
    {k \in 1..Len(subs) : Occurs(arg.variant, Get(subs[k], Consequence_all_effects))}
VcfWellFormed(subs) ==
    \A k \in 1..Len(subs) : HasKey(subs[k], Consequence) /\ HasKey(subs[k], VARIANT_CLASS)
MafWellFormed(subs) ==
    \A k \in 1..Len(subs) : HasKey(subs[k], Consequence_all_effects)

\* the VCF half of C4, shared by the claim and its amendment
VcfFilterExact ==
    call = "filter_variants" =>
        LET subs == Get(arg.dict_a, CSQ)
        IN  VcfWellFormed(subs) =>
                /\ pc = "returned"
                /\ Get(ret, CSQ) = SubsequenceAt(subs, VcfQualifying(subs))

\* C4 (as claimed): both filters return exactly the order-preserving
\* subsequence of the qualifying sub-records.
C4_ReturnsSubsequence ==
    /\ VcfFilterExact
    /\ call = "filter_variants_maf" =>
        LET subs == arg.list_of_dicts
        IN  MafWellFormed(subs) =>
                /\ pc = "returned"
                /\ ret = Some(SubsequenceAt(subs, MafQualifying(subs)))

\* C4 (amended): filter_variants keeps exactly the order-preserving
\* subsequence of the sub-records whose Consequence contains the target
\* consequence and whose VARIANT_CLASS contains the target class (both
\* case-sensitive); filter_variants_maf returns the order-preserving
\* subsequence of the sub-records whose Consequence_all_effects contains the
\* target when that subsequence is not empty, and np.nan when it is empty.
C4_SubsequenceOrNaN ==
    /\ VcfFilterExact
    /\ call = "filter_variants_maf" =>
        LET subs == arg.list_of_dicts
            Q == MafQualifying(subs)
        IN  MafWellFormed(subs) =>
                /\ pc = "returned"
                /\ Q # {} => ret = Some(SubsequenceAt(subs, Q))
                /\ Q = {} => ret = NaN

\* missense, synonymous, missense: sub-records 1 and 3 are kept, in order
C4_Witness ==
    /\ call = "filter_variants_maf"
    /\ pc = "returned"
    /\ arg.variant = <<"m">>
    /\ Len(arg.list_of_dicts) = 3
    /\ Get(arg.list_of_dicts[1], Consequence_all_effects) = <<"m">>
    /\ Get(arg.list_of_dicts[2], Consequence_all_effects) = <<"s">>
    /\ Get(arg.list_of_dicts[3], Consequence_all_effects) = <<"m">>
    /\ arg.list_of_dicts[1] # arg.list_of_dicts[3]
    /\ ret = Some(<<arg.list_of_dicts[1], arg.list_of_dicts[3]>>)

TokenKeys == {arg.tokens[k].key : k \in 1..Len(arg.tokens)}
TokenValue(t) == IF t.has THEN t.value ELSE SentinelText
OneEntryPerKey == Keys(ret) = TokenKeys /\ Len(ret) = Cardinality(TokenKeys)

C8_MissingFieldsPadded ==
    (call = "update_value" /\ pc = "returned") =>
        LET decoded == Get(ret, CSQ)
            keys == arg.csq_keys
        IN  /\ Len(decoded) = Len(arg.entries)
            /\ \A e \in 1..Len(decoded) :
                  /\ Keys(decoded[e]) = {keys[i] : i \in 1..Len(keys)}
                  /\ \A i \in 1..Len(keys) :
                        Get(decoded[e], keys[i]) =
                            IF i <= Len(arg.entries[e]) THEN arg.entries[e][i]
                            ELSE SentinelText

\* C8 (amended): update_value zips the '|'-split values positionally against
\* the schema and stops at the shorter of the two: the i-th value is stored
\* under the i-th field name, values beyond the schema length are dropped,
\* and the fields beyond the number of values are absent from the mapping.
C8_ZipTruncates ==
    call = "update_value" =>
        /\ pc = "returned"
        /\ ret[1] = arg.dict_a[1]
        /\ LET decoded == Get(ret, CSQ)
               keys == arg.csq_keys
           IN  /\ Len(decoded) = Len(arg.entries)
               /\ \A e \in 1..Len(decoded) :
                     decoded[e] =
                         [i \in 1..Min(Len(keys), Len(arg.entries[e])) |->
                             <<keys[i], arg.entries[e][i]>>]

\* a schema of three fields, a sub-entry of one value and one of three
C8_Witness ==
    /\ call = "update_value"
    /\ pc = "returned"
    /\ Len(arg.csq_keys) = 3
    /\ Len(arg.entries) = 2
    /\ Len(arg.entries[1]) = 1
    /\ Len(arg.entries[2]) = 3
    /\ Len(Get(ret, CSQ)[1]) = 1
    /\ Len(Get(ret, CSQ)[2]) = 3

(***************************************************************************)
(* Data frame operations of the pipelines.  A row is a sequence of         *)
(* <<column, value>> pairs; a data frame is a sequence of rows.            *)
(***************************************************************************)
\* df[dst] = df[src].apply(f), r[k] being the outcome [raised, value] of f
\* on row k: the statement raises when f raises on some row
Assign(d, dst, r) ==
    [raised |-> \E k \in 1..Len(d) : r[k].raised,
     value |-> [k \in 1..Len(d) |-> Put(d[k], dst, r[k].value)]]

Total(v) == [raised |-> FALSE, value |-> v]

\* a filter that forgets the FILTER == 'PASS' test
TableFilterAnyStatus(d, variant) ==
    SelectIdx(d, {k \in 1..Len(d) :
                    Contains(Lower(Get(d[k], ColINFO)), Lower(variant))}, 1)

\* read_process_vcf, line 283: FILTER == 'PASS' and INFO contains `variant`,
\* whatever the case of the letters
TableFilter(d, variant) ==
    SelectIdx(d, {k \in 1..Len(d) :
                    /\ Get(d[k], ColFILTER) = PASS
                    /\ Contains(Lower(Get(d[k], ColINFO)), Lower(variant))}, 1)

\* a dropna that drops nothing
DropNaNothing(d, col) == d

\* df.dropna(subset = [col])
DropNa(d, col) == SelectIdx(d, {k \in 1..Len(d) : ~IsNaN(Get(d[k], col))}, 1)

\* row.drop([col])
DropCol(row, col) == SelectIdx(row, {k \in 1..Len(row) : row[k][1] # col}, 1)

\* the columns of pd.json_normalize: the keys of the records, in the order
\* of their first appearance
RECURSIVE UnionKeys(_)
UnionKeys(sels) ==
    IF sels = <<>> THEN <<>>
    ELSE LET n == Len(sels)
             before == UnionKeys(SubSeq(sels, 1, n - 1))
             seen == {before[k] : k \in 1..Len(before)}
             last == sels[n]
         IN  before \o SelectIdx([k \in 1..Len(last) |-> last[k][1]],
                                 {k \in 1..Len(last) : last[k][1] \notin seen}, 1)

\* pd.json_normalize(df['Variant_INFO']): one row per record, np.nan where a
\* record lacks a column
JsonNormalize(sels) ==
    LET cols == UnionKeys(sels)
    IN  [k \in 1..Len(sels) |->
            [j \in 1..Len(cols) |->
                <<cols[j], IF HasKey(sels[k], cols[j])
                           THEN Some(Get(sels[k], cols[j])) ELSE NaN>>]]

\* an extension that leaves Variant_INFO in place
ExtendKeepAll(d) ==
    LET df_variant == JsonNormalize([k \in 1..Len(d) |-> Get(d[k], ColVariantINFO).val])
    IN  [k \in 1..Len(d) |-> d[k] \o df_variant[k]]

\* lines 303-304 and 384-385: the rows without Variant_INFO, side by side
\* with the normalized selections
Extend(d) ==
    LET df_variant == JsonNormalize([k \in 1..Len(d) |-> Get(d[k], ColVariantINFO).val])
    IN  [k \in 1..Len(d) |-> DropCol(d[k], ColVariantINFO) \o df_variant[k]]

(***************************************************************************)
(* The inputs of the pipelines.                                            *)
(***************************************************************************)
Digits == <<"1", "2", "3", "4", "5", "6", "7", "8", "9">>
PosText(k) == <<Digits[k]>>

VcfSchema == <<Consequence, VARIANT_CLASS, Feature>>

VcfHeaders ==
    { <<CsqLine(VcfSchema), ColumnLine>>,
      <<OtherMetaLine, ColumnLine>>,
      <<IndividualLine, SampleLine, CsqLine(VcfSchema), ColumnLine>>,
      <<SampleNoCommaLine, CsqLine(VcfSchema), ColumnLine>> }

\* the text of an INFO field: an optional flag token, then CSQ=...
VcfInfoText(flag, entries) ==
    (IF flag THEN <<"F", ";">> ELSE <<>>) \o CSQ \o <<"=">> \o CsqText(entries)

VcfRow(status, flag, entries) ==
    [FILTER |-> status, INFO |-> VcfInfoText(flag, entries), entries |-> entries]

VcfRowChoices ==
    { VcfRow(PASS, FALSE, << <<<<"m">>, <<"S">>, T1>> >>),
      VcfRow(PASS, TRUE, << <<<<"s">>, <<"S">>, T1>>, <<<<"m">>, <<"S">>, T2>> >>),
      VcfRow(PASS, FALSE, << <<<<"m">>, <<"S">>, T1>>, <<<<"m">>, <<"D">>, T2>>,
                             <<<<"s", "m">>, <<"S">>, T1>> >>),
      VcfRow(PASS, FALSE, << <<<<"M">>, <<"S">>, T1>> >>),
      VcfRow(PASS, FALSE, << <<<<"m">>>> >>),
      VcfRow(PASS, FALSE, << <<<<"m">>, <<"S">>, T2, <<"x">>>> >>),
      VcfRow(<<"q">>, FALSE, << <<<<"m">>, <<"S">>, T1>> >>),
      VcfRow(PASS, FALSE, << <<<<"s">>, <<"S">>, T1>> >>) }

VcfArgs ==
    { [fn |-> "read_process_vcf", table |-> t, variant |-> v,
       variant_class |-> <<"S">>, id_list |-> ids, return_case_id |-> rci] :
        t \in SeqsOf(VcfRowChoices, 0, MaxRows), v \in VariantChoices,
        ids \in IdListChoices, rci \in BOOLEAN }

\* the eleven values of a complete all_effects sub-entry
MafEntry(sym, c, t) ==
    <<sym, c, <<"p">>, t, <<>>, <<"c">>, <<"H">>, <<"Y">>, <<>>, <<>>, <<"1">>>>

\* the text of an all_effects field
MafText(entries) ==
    Join([k \in 1..Len(entries) |-> Join(entries[k], <<",">>)], <<";">>)

MafRow(entries) == [all_effects |-> MafText(entries), entries |-> entries]

MafRowChoices ==
    { MafRow(<< MafEntry(<<"G">>, <<"m">>, T1) >>),
      MafRow(<< MafEntry(<<"G">>, <<"s">>, T1), MafEntry(<<"G">>, <<"m">>, T2) >>),
      MafRow(<< MafEntry(<<"G">>, <<"m">>, T1), MafEntry(<<"G">>, <<"s">>, T2),
                MafEntry(<<"H">>, <<"m">>, T1) >>),
      MafRow(<< MafEntry(<<"G">>, <<"s">>, T1) >>),
      MafRow(<< <<<<"G">>, <<"m">>>> >>),
      MafRow(<< <<<<"G">>>> >>),
      MafRow(<< <<<<"G">>, <<"m">>, <<"p">>, T1>> >>),
      MafRow(<< MafEntry(<<"G">>, <<"M">>, T1) >>) }

MafArgs ==
    { [fn |-> "read_process_maf", table |-> t, consequence |-> v, id_list |-> ids] :
        t \in SeqsOf(MafRowChoices, 0, MaxRows), v \in VariantChoices,
        ids \in IdListChoices }

(***************************************************************************)
(* Specification of the pipelines: read_process_vcf or read_process_maf    *)
(* is called and runs statement by statement.                              *)
(***************************************************************************)
InitPipe ==
    /\ call = "none"
    /\ pc = "start"
    /\ \/ arg \in VcfArgs /\ file \in VcfHeaders
       \/ arg \in MafArgs /\ file = <<>>
    /\ scan = NoScan
    /\ loc = NoLoc
    /\ df = NoDf
    /\ ret = NoRet

Raise(error, at) ==
    /\ pc' = "raised"
    /\ ret' = [error |-> error, at |-> at]

\* a df[...] = df[...].apply(...) statement of a pipeline
ApplyStep(from, to, r, error, at) ==
    /\ pc = from
    /\ IF r.raised
       THEN Raise(error, at) /\ UNCHANGED df
       ELSE pc' = to /\ df' = r.value /\ UNCHANGED ret
    /\ UNCHANGED <<call, file, arg, scan, loc>>

\* lines 278-279
VcfScanHeader ==
    /\ pc = "start"
    /\ arg.fn = "read_process_vcf"
    /\ call' = "read_process_vcf"
    /\ LET r == CsqKeys(file)
       IN  IF r.raised
           THEN Raise("IndexError", "csqkeys") /\ UNCHANGED loc
           ELSE /\ pc' = "scanned"
                /\ loc' = [skip_rows |-> Rows2Skip(file), csq_keys |-> r.value]
                /\ UNCHANGED ret
    /\ UNCHANGED <<file, arg, scan, df>>

\* line 281: the table that the reader loads from the file
VcfReadCsv ==
    /\ call = "read_process_vcf"
    /\ pc = "scanned"
    /\ pc' = "read"
    /\ df' = [k \in 1..Len(arg.table) |->
                <<<<ColPOS, PosText(k)>>, <<ColFILTER, arg.table[k].FILTER>>,
                  <<ColINFO, arg.table[k].INFO>>>>]
    /\ UNCHANGED <<call, file, arg, scan, loc, ret>>

\* line 283
VcfTableFilter ==
    /\ call = "read_process_vcf"
    /\ pc = "read"
    /\ pc' = "table_filtered"
    /\ df' = TableFilter(df, arg.variant)
    /\ UNCHANGED <<call, file, arg, scan, loc, ret>>

\* line 286
VcfAddNan ==
    /\ call = "read_process_vcf"
    /\ ApplyStep("table_filtered", "tokens",
                 Assign(df, ColINFO,
                        [k \in 1..Len(df) |-> Total(AddNan(Get(df[k], ColINFO)))]),
                 "none", "none")

\* line 289
VcfToDict ==
    /\ call = "read_process_vcf"
    /\ ApplyStep("tokens", "outer_decoded",
                 Assign(df, ColINFO,
                        [k \in 1..Len(df) |-> ToDict(Get(df[k], ColINFO))]),
                 "ValueError", "decode")

\* line 292
VcfUpdateValue ==
    /\ call = "read_process_vcf"
    /\ ApplyStep("outer_decoded", "decoded",
                 Assign(df, ColINFO,
                        [k \in 1..Len(df) |-> UpdateValue(Get(df[k], ColINFO), CSQ, loc.csq_keys)]),
                 "KeyError", "decode")

\* line 295
VcfFilterVariants ==
    /\ call = "read_process_vcf"
    /\ ApplyStep("decoded", "variant_filtered",
                 Assign(df, ColINFO,
                        [k \in 1..Len(df) |-> FilterVariants(Get(df[k], ColINFO), arg.variant, arg.variant_class)]),
                 "KeyError", "filter")

\* lines 298-300
VcfFindVariants ==
    /\ call = "read_process_vcf"
    /\ Len(arg.id_list) > 0
    /\ ApplyStep("variant_filtered", "resolved",
                 Assign(df, ColVariantINFO,
                        [k \in 1..Len(df) |-> FindVariants(Get(df[k], ColINFO), arg.id_list)]),
                 "KeyError", "resolve")

\* line 301
VcfDropNa ==
    /\ call = "read_process_vcf"
    /\ pc = "resolved"
    /\ pc' = "dropped"
    /\ df' = DropNa(df, ColVariantINFO)
    /\ UNCHANGED <<call, file, arg, scan, loc, ret>>

\* lines 303-304
VcfExtend ==
    /\ call = "read_process_vcf"
    /\ pc = "dropped"
    /\ pc' = "extended"
    /\ df' = Extend(df)
    /\ UNCHANGED <<call, file, arg, scan, loc, ret>>

\* lines 306-313 and 317-324: the table, with the pair of case_id when asked
VcfReturn ==
    /\ call = "read_process_vcf"
    /\ \/ pc = "extended"
       \/ pc = "variant_filtered" /\ Len(arg.id_list) = 0
    /\ IF arg.return_case_id
       THEN LET st == CaseIdRun(CaseIdStart, file)
            IN  IF st.at = "raise"
                THEN Raise("IndexError", "case_id")
                ELSE /\ pc' = "returned"
                     /\ ret' = <<df, st.identifier, st.sample_id>>
       ELSE /\ pc' = "returned"
            /\ ret' = df
    /\ UNCHANGED <<call, file, arg, scan, loc, df>>

\* line 357: the table that the reader loads from the file
MafReadCsv ==
    /\ pc = "start"
    /\ arg.fn = "read_process_maf"
    /\ call' = "read_process_maf"
    /\ pc' = "read"
    /\ df' = [k \in 1..Len(arg.table) |->
                <<<<ColStart, PosText(k)>>, <<ColAllEffects, arg.table[k].all_effects>>>>]
    /\ UNCHANGED <<file, arg, scan, loc, ret>>

\* line 370
MafDecode ==
    /\ call = "read_process_maf"
    /\ ApplyStep("read", "decoded",
                 Assign(df, ColAllEffects,
                        [k \in 1..Len(df) |-> Total(DecodeAllEffects(Get(df[k], ColAllEffects)))]),
                 "none", "none")

\* line 373
MafFilterVariants ==
    /\ call = "read_process_maf"
    /\ ApplyStep("decoded", "variant_filtered",
                 Assign(df, ColAllEffects,
                        [k \in 1..Len(df) |-> FilterVariantsMaf(Get(df[k], ColAllEffects), arg.consequence)]),
                 "KeyError", "filter")

\* line 376
MafDropEmpty ==
    /\ call = "read_process_maf"
    /\ pc = "variant_filtered"
    /\ pc' = "nonempty"
    /\ df' = DropNa(df, ColAllEffects)
    /\ UNCHANGED <<call, file, arg, scan, loc, ret>>

\* lines 379-381
MafFindVariants ==
    /\ call = "read_process_maf"
    /\ Len(arg.id_list) > 0
    /\ ApplyStep("nonempty", "resolved",
                 Assign(df, ColVariantINFO,
                        [k \in 1..Len(df) |-> FindVariantsMaf(Get(df[k], ColAllEffects).val, arg.id_list)]),
                 "KeyError", "resolve")

\* line 382
MafDropNa ==
    /\ call = "read_process_maf"
    /\ pc = "resolved"
    /\ pc' = "dropped"
    /\ df' = DropNa(df, ColVariantINFO)
    /\ UNCHANGED <<call, file, arg, scan, loc, ret>>

\* lines 384-385
MafExtend ==
    /\ call = "read_process_maf"
    /\ pc = "dropped"
    /\ pc' = "extended"
    /\ df' = Extend(df)
    /\ UNCHANGED <<call, file, arg, scan, loc, ret>>

\* lines 387 and 391
MafReturn ==
    /\ call = "read_process_maf"
    /\ \/ pc = "extended"
       \/ pc = "nonempty" /\ Len(arg.id_list) = 0
    /\ pc' = "returned"
    /\ ret' = df
    /\ UNCHANGED <<call, file, arg, scan, loc, df>>

NextPipe ==
    \/ VcfScanHeader
    \/ VcfReadCsv
    \/ VcfTableFilter
    \/ VcfAddNan
    \/ VcfToDict
    \/ VcfUpdateValue
    \/ VcfFilterVariants
    \/ VcfFindVariants
    \/ VcfDropNa
    \/ VcfExtend
    \/ VcfReturn
    \/ MafReadCsv
    \/ MafDecode
    \/ MafFilterVariants
    \/ MafDropEmpty
    \/ MafFindVariants
    \/ MafDropNa
    \/ MafExtend
    \/ MafReturn

Spec == InitPipe /\ [][NextPipe]_vars

(***************************************************************************)
(* Properties of the pipelines (Spec), stated from the table as it is read *)
(* to the table that is returned.                                          *)
(***************************************************************************)
IsVcf == arg.fn = "read_process_vcf"
Returned == pc = "returned" /\ call \in {"read_process_vcf", "read_process_maf"}
OutTable == IF IsVcf /\ arg.return_case_id THEN ret[1] ELSE ret
PosCol == IF IsVcf THEN ColPOS ELSE ColStart
IdSet == {arg.id_list[j] : j \in 1..Len(arg.id_list)}

\* row k of the table passes the table-level filter (the MAF path has none)
TablePass(k) ==
    IsVcf => /\ arg.table[k].FILTER = PASS
             /\ Occurs(Lower(arg.variant), Lower(arg.table[k].INFO))

\* sub-entry e, a sequence of values, survives the variant filter
Qualifies(e) ==
    IF IsVcf
    THEN Len(e) >= 2 /\ Occurs(arg.variant, e[1]) /\ Occurs(arg.variant_class, e[2])
    ELSE Len(e) >= 2 /\ Occurs(arg.consequence, e[2])

\* sub-entry e carries a transcript identifier of id_list
Matches(e) ==
    IF IsVcf THEN Len(e) >= 3 /\ e[3] \in IdSet
    ELSE Len(e) >= 4 /\ e[4] \in IdSet

QualifyingOf(k) ==
    {i \in 1..Len(arg.table[k].entries) : Qualifies(arg.table[k].entries[i])}
MatchingOf(k) ==
    {i \in QualifyingOf(k) : Matches(arg.table[k].entries[i])}

\* the mapping that sub-entry e decodes to
SchemaOf == IF IsVcf THEN VcfSchema ELSE MafKeys
DecodedEntry(e) == [i \in 1..Min(Len(SchemaOf), Len(e)) |-> <<SchemaOf[i], e[i]>>]
FilteredOf(k) ==
    SubsequenceAt([i \in 1..Len(arg.table[k].entries) |->
                      DecodedEntry(arg.table[k].entries[i])], QualifyingOf(k))

\* the positions of the table rows, in order, that the output holds
OutPositions == [j \in 1..Len(OutTable) |-> Get(OutTable[j], PosCol)]
PositionsAt(P) == [j \in 1..Cardinality(P) |-> PosText(NthOf(P, j))]
ColumnsOf(row) == [j \in 1..Len(row) |-> row[j][1]]

\* the input shows none of: a missing schema, a sub-entry too short to hold
\* the keys that are read, a TUMOR sample line without ','
WellFormedInput ==
    /\ \A k \in 1..Len(arg.table) : \A i \in 1..Len(arg.table[k].entries) :
          Len(arg.table[k].entries[i]) >= (IF IsVcf THEN 3 ELSE 4)
    /\ IsVcf => /\ \E l \in 1..Len(file) : file[l] = CsqLine(VcfSchema)
                /\ \A l \in 1..Len(file) : file[l] # SampleNoCommaLine

\* C2: with a non-empty id_list, the returned table holds, once each and in
\* order, exactly the rows that passed the table-level filter and whose
\* variant-filtered sequence has a sub-record with a transcript identifier in
\* id_list; rows with an empty filtered sequence or without a match are
\* dropped without an error.
C2_RowKeptIffMatch ==
    (call \in {"read_process_vcf", "read_process_maf"} /\ Len(arg.id_list) > 0) =>
        /\ Returned =>
              OutPositions = PositionsAt({k \in 1..Len(arg.table) :
                                            TablePass(k) /\ MatchingOf(k) # {}})
        /\ WellFormedInput => pc # "raised"

\* two rows pass the table filter, one has a matching sub-record: one row out
C2_Witness ==
    /\ Returned
    /\ IsVcf
    /\ arg.id_list = <<T1>>
    /\ Len(arg.table) = 2
    /\ TablePass(1) /\ TablePass(2)
    /\ QualifyingOf(1) # {} /\ MatchingOf(1) = {}
    /\ MatchingOf(2) # {}
    /\ OutPositions = <<PosText(2)>>

\* the embedded column of output row j, which is row k of the table, holds
\* the decoded and filtered sequence
EmbeddedIsFiltered(j, k) ==
    IF IsVcf
    THEN Get(Get(OutTable[j], ColINFO), CSQ) = FilteredOf(k)
    ELSE Get(OutTable[j], ColAllEffects) = Some(FilteredOf(k))

PassThrough(P) ==
    /\ OutPositions = PositionsAt(P)
    /\ \A j \in 1..Len(OutTable) :
          /\ ColumnsOf(OutTable[j]) =
                (IF IsVcf THEN <<ColPOS, ColFILTER, ColINFO>>
                 ELSE <<ColStart, ColAllEffects>>)
          /\ EmbeddedIsFiltered(j, NthOf(P, j))

\* C3 (as claimed): with an empty id_list every row that reached the variant
\* filter is returned, unresolved, with its decoded and filtered sequence,
\* also when every sub-record was filtered out.
C3_AllPassThrough ==
    (Returned /\ Len(arg.id_list) = 0) =>
        PassThrough({k \in 1..Len(arg.table) : TablePass(k)})

\* C3 (amended): with an empty id_list resolution and expansion are skipped;
\* read_process_vcf returns every row that reached the variant filter, also
\* one whose every sub-record was filtered out (its CSQ list is empty), while
\* read_process_maf returns exactly the rows that keep at least one
\* sub-record and drops a row whose every sub-record was filtered out.
C3_PassThroughUnlessEmptyMaf ==
    (Returned /\ Len(arg.id_list) = 0) =>
        PassThrough({k \in 1..Len(arg.table) :
                        TablePass(k) /\ (IsVcf \/ QualifyingOf(k) # {})})

\* a VCF row whose every sub-record was filtered out is returned
C3_Witness ==
    /\ Returned
    /\ IsVcf
    /\ Len(arg.id_list) = 0
    /\ Len(arg.table) = 2
    /\ TablePass(1) /\ QualifyingOf(1) = {}
    /\ TablePass(2) /\ QualifyingOf(2) # {}
    /\ Len(OutTable) = 2
    /\ Get(Get(OutTable[1], ColINFO), CSQ) = <<>>

\* C5 (as claimed): no row of the extended table holds the embedded column,
\* Variant_INFO or another intermediate column.
C5_EmbeddedColumnRemoved ==
    (Returned /\ Len(arg.id_list) > 0) =>
        \A j \in 1..Len(OutTable) : \A c \in 1..Len(OutTable[j]) :
            OutTable[j][c][1] \notin {ColINFO, ColAllEffects, ColVariantINFO}

\* the selection of row k: its last qualifying sub-entry with an identifier
\* of id_list
SelectionOf(k) == arg.table[k].entries[Max(MatchingOf(k))]
KeptRows == {k \in 1..Len(arg.table) : TablePass(k) /\ MatchingOf(k) # {}}
Width == Max({Min(Len(SchemaOf), Len(SelectionOf(k))) : k \in KeptRows})

\* C5 (amended): with a non-empty id_list every row of the extended table
\* holds all the columns of the Row, the embedded column included (it holds
\* the decoded and filtered sequence), followed by the Selection's key-value
\* pairs as new columns (np.nan for a key another row's Selection has and
\* this one lacks); only Variant_INFO is removed.
C5_ExtendedKeepsEmbedded ==
    (Returned /\ Len(arg.id_list) > 0) =>
        \A j \in 1..Len(OutTable) :
            LET row == OutTable[j]
                k == NthOf(KeptRows, j)
                e == SelectionOf(k)
                nb == IF IsVcf THEN 3 ELSE 2
            IN  /\ ColumnsOf(row) =
                      (IF IsVcf THEN <<ColPOS, ColFILTER, ColINFO>>
                       ELSE <<ColStart, ColAllEffects>>)
                          \o SubSeq(SchemaOf, 1, Width)
                /\ EmbeddedIsFiltered(j, k)
                /\ \A i \in 1..Width :
                      row[nb + i][2] = IF i <= Len(e) THEN Some(e[i]) ELSE NaN

\* a row with two matching sub-records: the columns of the last one are
\* joined and INFO is still there
C5_Witness ==
    /\ Returned
    /\ IsVcf
    /\ arg.id_list = <<T1>>
    /\ arg.variant = <<"m">>
    /\ Len(arg.table) = 1
    /\ MatchingOf(1) = {1, 3}
    /\ Len(OutTable) = 1
    /\ HasKey(OutTable[1], ColINFO)
    /\ ~HasKey(OutTable[1], ColVariantINFO)
    /\ Get(OutTable[1], Consequence) = Some(<<"s", "m">>)
    /\ Get(OutTable[1], Feature) = Some(T1)

\* C6 (as claimed): a missing schema, no qualifying row, a sub-entry with
\* fewer or more values than the schema, an unresolved row: none of them
\* makes a pipeline raise at decoding, filtering or resolving.
C6_NonFatal ==
    ~(/\ call \in {"read_process_vcf", "read_process_maf"}
      /\ pc = "raised"
      /\ ret.at \in {"decode", "filter", "resolve"})

====
